---- MODULE Spec2Model ----
(***************************************************************************)
(* Response interpreter of the OJP client (src/ojp/parsers.py,             *)
(* src/ojp/client.py, src/ojp/models.py).                                  *)
(*                                                                         *)
(* An XML element is a record whose fields are the results of the XPath    *)
(* queries the parser runs on it: each field is the list of matches, in    *)
(* document order, so that `if elems:' is `elems # <<>>' and `elems[0]' is *)
(* Head(elems).  An element's .text is an optional value.                  *)
(* Optional values: None is <<>>, a present value v is <<v>>.              *)
(***************************************************************************)
EXTENDS Integers, Sequences, FiniteSets, TLC

VARIABLES
    pc,          \* "idle" before the call, "returned" after it
    op,          \* the operation that was called ("" while idle)
    document,    \* the response text the provider sends back
    transport,   \* outcome of the HTTP exchange (client operations only)
    query,       \* LocationSearchParams.query (optional text)
    response     \* the envelope handed back to the caller (<<>> while idle)

vars == <<pc, op, document, transport, query, response>>

----------------------------------------------------------------------------
(* Python values *)

None == <<>>
Some(v) == <<v>>
IsNone(o) == o = <<>>
Val(o) == o[1]

RECURSIVE SumSeq(_)
SumSeq(s) == IF s = <<>> THEN 0 ELSE Head(s) + SumSeq(Tail(s))

\* int(x) of a float: truncation toward zero.
PyIntTrunc(num, den) ==
    IF num >= 0 THEN num \div den ELSE -((-num) \div den)

Max(a, b) == IF a >= b THEN a ELSE b

\* datetime: seconds on the UTC time line (wall clock for a naive value) and
\* whether the value carries a UTC offset.
Instant(t, aware) == [t |-> t, aware |-> aware]

\* (a - b).total_seconds(); subtracting an aware and a naive datetime raises
\* TypeError.
SubRaises(a, b) == a.aware # b.aware
TotalSeconds(a, b) == a.t - b.t

\* str.lower() on the vocabulary of the documents.
Lower(s) ==
    CASE s = "Walk" -> "walk"
      [] s = "WALK" -> "walk"
      [] s = "Walking" -> "walking"
      [] s = "Cycle" -> "cycle"
      [] s = "Rail" -> "rail"
      [] s = "Bus" -> "bus"
      [] s = "cableCar" -> "cablecar"
      [] s = "Tram" -> "tram"
      [] OTHER -> s

----------------------------------------------------------------------------
(* Duration Decoder: OJPParser._parse_iso_duration.  A string is a sequence *)
(* of one-character strings.                                                *)

DigitChars == <<"0", "1", "2", "3", "4", "5", "6", "7", "8", "9">>
IsDigit(c) == \E i \in 1..10 : DigitChars[i] = c
DigitVal(c) == (CHOOSE i \in 1..10 : DigitChars[i] = c) - 1

RECURSIVE DigitsValue(_, _)
DigitsValue(s, acc) ==
    IF s = <<>> THEN acc
    ELSE IF Head(s) = "_" THEN DigitsValue(Tail(s), acc)
    ELSE DigitsValue(Tail(s), acc * 10 + DigitVal(Head(s)))

RECURSIVE StripLeft(_)
StripLeft(s) ==
    IF s # <<>> /\ Head(s) = " " THEN StripLeft(Tail(s)) ELSE s

RECURSIVE StripRight(_)
StripRight(s) ==
    IF s # <<>> /\ s[Len(s)] = " " THEN StripRight(SubSeq(s, 1, Len(s) - 1))
    ELSE s

\* Digits, with single underscores allowed between two digits.
IsIntBody(s) ==
    /\ s # <<>>
    /\ \A i \in 1..Len(s) : IsDigit(s[i]) \/ s[i] = "_"
    /\ IsDigit(s[1]) /\ IsDigit(s[Len(s)])
    /\ \A i \in 1..(Len(s) - 1) : ~(s[i] = "_" /\ s[i + 1] = "_")

\* int(text): None stands for ValueError.
PyInt(text) ==
    LET s == StripRight(StripLeft(text))
        signed == s # <<>> /\ Head(s) \in {"+", "-"}
        body == IF signed THEN Tail(s) ELSE s
    IN  IF ~IsIntBody(body) THEN None
        ELSE IF signed /\ Head(s) = "-" THEN Some(-DigitsValue(body, 0))
        ELSE Some(DigitsValue(body, 0))

Contains(s, c) == \E i \in 1..Len(s) : s[i] = c
IndexOf(s, c) == CHOOSE i \in 1..Len(s) : s[i] = c /\ \A j \in 1..(i - 1) : s[j] # c

\* text.split(c): the list of the parts between the occurrences of c.
RECURSIVE Split(_, _)
Split(s, c) ==
    IF ~Contains(s, c) THEN <<s>>
    ELSE <<SubSeq(s, 1, IndexOf(s, c) - 1)>>
             \o Split(SubSeq(s, IndexOf(s, c) + 1, Len(s)), c)

\* text.replace(c, '')
Remove(s, c) == SelectSeq(s, LAMBDA x : x # c)

StartsWithPT(s) == Len(s) >= 2 /\ s[1] = "P" /\ s[2] = "T"

\* Mutant: the hours are added as they are, not times 60.
_parse_iso_duration_HoursAsMinutes(duration_text) ==
    IF ~StartsWithPT(duration_text) THEN None
    ELSE
      LET rest == SubSeq(duration_text, 3, Len(duration_text))
          hasH == Contains(rest, "H")
          parts == Split(rest, "H")
          hours == PyInt(parts[1])
          afterH == IF hasH THEN parts[2] ELSE rest
          hasM == Contains(afterH, "M")
          minutes_part == Remove(afterH, "M")
          mins == PyInt(minutes_part)
      IN  IF hasH /\ IsNone(hours) THEN None
          ELSE IF hasM /\ minutes_part # <<>> /\ IsNone(mins) THEN None
          ELSE Some((IF hasH THEN Val(hours) ELSE 0)
                    + (IF hasM /\ minutes_part # <<>> THEN Val(mins) ELSE 0))

_parse_iso_duration(duration_text) ==
    IF ~StartsWithPT(duration_text) THEN None
    ELSE
      LET rest == SubSeq(duration_text, 3, Len(duration_text))
          hasH == Contains(rest, "H")
          parts == Split(rest, "H")
          hours == PyInt(parts[1])
          afterH == IF hasH THEN (IF Len(parts) > 1 THEN parts[2] ELSE <<>>)
                    ELSE rest
          hasM == Contains(afterH, "M")
          minutes_part == Remove(afterH, "M")
          mins == PyInt(minutes_part)
      IN  IF hasH /\ IsNone(hours) THEN None
          ELSE IF hasM /\ minutes_part # <<>> /\ IsNone(mins) THEN None
          ELSE Some((IF hasH THEN Val(hours) * 60 ELSE 0)
                    + (IF hasM /\ minutes_part # <<>> THEN Val(mins) ELSE 0))

----------------------------------------------------------------------------
(* models.py *)

\* Location(...): name must be a str; probability, when given, in [0, 1]
\* (kept in hundredths).  TRUE when pydantic raises ValidationError.
LocationInvalid(name, probability) ==
    \/ IsNone(name)
    \/ (~IsNone(probability) /\ (Val(probability) < 0 \/ Val(probability) > 100))

Location(id, name, coordinates, probability) ==
    [id |-> id, name |-> name, coordinates |-> coordinates, type |-> "stop",
     probability |-> probability]

UnknownLocation == Location(None, "Unknown", None, None)

Leg(mode, origin, destination, departure_time, arrival_time, duration_minutes, line_name, direction) ==
    [mode |-> mode, origin |-> origin, destination |-> destination,
     departure_time |-> departure_time, arrival_time |-> arrival_time,
     duration_minutes |-> duration_minutes, line_name |-> line_name,
     direction |-> direction]

\* Mutant: departure_time and arrival_time are Optional[datetime].
TripInvalid_OptionalTimes(departure_time, arrival_time) == FALSE

\* Trip(...): departure_time and arrival_time are declared `datetime', not
\* Optional: pydantic raises ValidationError when either is None.
TripInvalid(departure_time, arrival_time) ==
    IsNone(departure_time) \/ IsNone(arrival_time)

Trip(legs, total_duration_minutes, departure_time, arrival_time, transfers) ==
    [legs |-> legs, total_duration_minutes |-> total_duration_minutes,
     departure_time |-> departure_time, arrival_time |-> arrival_time,
     transfers |-> transfers]

\* The envelope's timestamp (datetime.now at construction) is left out: no
\* operation reads it.
TripResponse(success, error_message, trips) ==
    [success |-> success, error_message |-> error_message, trips |-> trips]

LocationResponse(success, error_message, locations) ==
    [success |-> success, error_message |-> error_message,
     locations |-> locations]

----------------------------------------------------------------------------
(* XML elements *)

\* An element with text only; text is None for an empty element.
TextElem(text) == [text |-> text]

\* The text of a time element: dateutil parses it (ok) to a datetime, or
\* raises.
TimeText(t, aware) == [ok |-> TRUE, t |-> t, aware |-> aware]
JunkTimeText == [ok |-> FALSE, t |-> 0, aware |-> FALSE]

\* date_parser.parse(elems[0].text) under `try ... except Exception: pass':
\* None when the text is missing or does not parse.
ParseTimeElem(elems) ==
    IF elems = <<>> THEN None
    ELSE LET txt == Head(elems).text
         IN  IF IsNone(txt) \/ ~Val(txt).ok THEN None
             ELSE Some(Instant(Val(txt).t, Val(txt).aware))

\* elems[0].text if elems else default
FirstTextOr(elems, default) ==
    IF elems # <<>> THEN Head(elems).text ELSE default

----------------------------------------------------------------------------
(* Location Extractor *)

_parse_leg_board_alight(location_elem) ==
    LET name == FirstTextOr(location_elem.StopPointNameText, Some("Unknown"))
        location_id == FirstTextOr(location_elem.StopPointRef, None)
    IN  IF LocationInvalid(name, None) THEN UnknownLocation
        ELSE Location(location_id, Val(name), None, None)

_parse_transfer_location(location_elem) ==
    LET name_elem == IF location_elem.NameText # <<>>
                     THEN location_elem.NameText ELSE location_elem.nText
        name == FirstTextOr(name_elem, Some("Unknown"))
        location_id == FirstTextOr(location_elem.StopPointRef, None)
    IN  IF LocationInvalid(name, None) THEN UnknownLocation
        ELSE Location(location_id, Val(name), None, None)

----------------------------------------------------------------------------
(* Leg Classifier & Decoder *)

RailSubmodeName(submode) ==
    CASE submode = "regionalRail" -> "regional_train"
      [] submode = "suburbanRailway" -> "s_bahn"
      [] submode = "interregionalRail" -> "intercity"
      [] submode = "highSpeedRail" -> "high_speed_rail"
      [] OTHER -> "train"

\* Mutant: the bus submode is handed on as the provider wrote it.
BusSubmodeName_PassThrough(submode) == submode

BusSubmodeName(submode) ==
    CASE submode = "localBus" -> "bus"
      [] submode = "expressBus" -> "express_bus"
      [] submode = "nightBus" -> "night_bus"
      [] OTHER -> "bus"

\* The mode of a timed leg, from its Service elements (lines 189-254).
TimedLegMode(service) ==
    IF service = <<>> \/ Head(service).PtMode = <<>>
       \/ IsNone(Head(Head(service).PtMode).text)
    THEN "public_transport"
    ELSE
      LET svc == Head(service)
          pt_mode == Val(Head(svc.PtMode).text)
          low == Lower(pt_mode)
      IN  IF low = "rail"
          THEN IF svc.RailSubmode # <<>> /\ ~IsNone(Head(svc.RailSubmode).text)
               THEN RailSubmodeName(Val(Head(svc.RailSubmode).text))
               ELSE low
          ELSE IF low = "bus"
          THEN IF svc.BusSubmode # <<>> /\ ~IsNone(Head(svc.BusSubmode).text)
               THEN BusSubmodeName(Val(Head(svc.BusSubmode).text))
               ELSE low
          ELSE IF low = "tram" THEN "tram"
          ELSE IF low = "metro" THEN "metro"
          ELSE IF low = "funicular" THEN "funicular"
          ELSE IF low = "cableCar" THEN "cable_car"
          ELSE low

\* line_name: PublishedServiceName/Text, else PublicCode.
TimedLegLineName(service) ==
    IF service = <<>> THEN None
    ELSE LET svc == Head(service)
             first == FirstTextOr(svc.PublishedServiceNameText, None)
         IN  IF IsNone(first) THEN FirstTextOr(svc.PublicCode, None) ELSE first

TimedLegDirection(service) ==
    IF service = <<>> THEN None
    ELSE FirstTextOr(Head(service).DestinationText, None)

_parse_timed_leg(leg_elem) ==
    IF leg_elem.LegBoard = <<>> \/ leg_elem.LegAlight = <<>> THEN None
    ELSE
      LET board == Head(leg_elem.LegBoard)
          alight == Head(leg_elem.LegAlight)
          dep_time_elem == IF board.EstimatedTime # <<>>
                           THEN board.EstimatedTime ELSE board.TimetabledTime
          arr_time_elem == IF alight.EstimatedTime # <<>>
                           THEN alight.EstimatedTime ELSE alight.TimetabledTime
      IN  Some(Leg(TimedLegMode(leg_elem.Service),
                   _parse_leg_board_alight(board),
                   _parse_leg_board_alight(alight),
                   ParseTimeElem(dep_time_elem),
                   ParseTimeElem(arr_time_elem),
                   None,
                   TimedLegLineName(leg_elem.Service),
                   TimedLegDirection(leg_elem.Service)))

\* mode of a continuous or transfer leg: TransferType text, lower-cased,
\* default "walking".
TransferMode(transfer_type_elem) ==
    IF transfer_type_elem # <<>> /\ ~IsNone(Head(transfer_type_elem).text)
    THEN Lower(Val(Head(transfer_type_elem).text))
    ELSE "walking"

\* duration_minutes from the first Duration element found.
DurationMinutes(duration_elem) ==
    IF duration_elem # <<>> /\ ~IsNone(Head(duration_elem).text)
    THEN _parse_iso_duration(Val(Head(duration_elem).text))
    ELSE None

\* Mutant: a transfer without LegStart or LegEnd gives no Leg.
TransferLegOf_DropOnMissing(transfer_leg_elem, duration_elem) ==
    IF transfer_leg_elem.LegStart = <<>> \/ transfer_leg_elem.LegEnd = <<>>
    THEN None
    ELSE Some(Leg(TransferMode(transfer_leg_elem.TransferType),
                  _parse_transfer_location(Head(transfer_leg_elem.LegStart)),
                  _parse_transfer_location(Head(transfer_leg_elem.LegEnd)),
                  None, None, DurationMinutes(duration_elem), None, None))

\* `origin or Location(name="Unknown")' etc. and the Leg of a transfer.
TransferLegOf(transfer_leg_elem, duration_elem) ==
    LET origin == IF transfer_leg_elem.LegStart # <<>>
                  THEN _parse_transfer_location(Head(transfer_leg_elem.LegStart))
                  ELSE UnknownLocation
        destination == IF transfer_leg_elem.LegEnd # <<>>
                       THEN _parse_transfer_location(Head(transfer_leg_elem.LegEnd))
                       ELSE UnknownLocation
    IN  Some(Leg(TransferMode(transfer_leg_elem.TransferType), origin,
                 destination, None, None, DurationMinutes(duration_elem),
                 None, None))

\* xpath('.//ojp:Duration') on a ContinuousLeg element: every Duration below
\* it in document order, those of its nested TransferLeg elements included.
RECURSIVE NestedDurations(_)
NestedDurations(transfer_legs) ==
    IF transfer_legs = <<>> THEN <<>>
    ELSE Head(transfer_legs).Duration \o NestedDurations(Tail(transfer_legs))

ContinuousDurations(leg_elem) ==
    leg_elem.DurationBefore \o NestedDurations(leg_elem.TransferLeg)
        \o leg_elem.DurationAfter

_parse_continuous_leg(leg_elem) ==
    IF leg_elem.TransferLeg = <<>> THEN None
    ELSE
      LET transfer_leg == Head(leg_elem.TransferLeg)
          own == ContinuousDurations(leg_elem)
          duration_elem == IF own # <<>> THEN own ELSE transfer_leg.Duration
      IN  TransferLegOf(transfer_leg, duration_elem)

_parse_transfer_leg(leg_elem, transfer_leg_elem) ==
    LET duration_elem == IF leg_elem.Duration # <<>> THEN leg_elem.Duration
                         ELSE transfer_leg_elem.Duration
    IN  TransferLegOf(transfer_leg_elem, duration_elem)

\* Mutant: a ContinuousLeg is looked for before a TimedLeg.
_parse_leg_ContinuousFirst(leg_elem) ==
    IF leg_elem.ContinuousLeg # <<>>
    THEN _parse_continuous_leg(Head(leg_elem.ContinuousLeg))
    ELSE IF leg_elem.TimedLeg # <<>>
    THEN _parse_timed_leg(Head(leg_elem.TimedLeg))
    ELSE IF leg_elem.TransferLeg # <<>>
    THEN _parse_transfer_leg(leg_elem, Head(leg_elem.TransferLeg))
    ELSE None

_parse_leg(leg_elem) ==
    IF leg_elem.TimedLeg # <<>> THEN _parse_timed_leg(Head(leg_elem.TimedLeg))
    ELSE IF leg_elem.ContinuousLeg # <<>>
    THEN _parse_continuous_leg(Head(leg_elem.ContinuousLeg))
    ELSE IF leg_elem.TransferLeg # <<>>
    THEN _parse_transfer_leg(leg_elem, Head(leg_elem.TransferLeg))
    ELSE None

----------------------------------------------------------------------------
(* Exceptions: the outcome of a block of code is a value it returns or an  *)
(* exception it raises; `try ... except Exception' maps a raising outcome  *)
(* to the handler's value.                                                 *)

Return(v) == [exc |-> FALSE, ret |-> v]
Raise(e) == [exc |-> TRUE, ret |-> e]

\* f"{prefix}{detail}"
FString(prefix, detail) == <<prefix, detail>>
IsEmptyStr(m) == \A i \in 1..Len(m) : m[i] = ""

----------------------------------------------------------------------------
(* Trip Assembler: OJPParser._parse_trip *)

MinOf(S) == CHOOSE x \in S : \A y \in S : x <= y
MaxOf(S) == CHOOSE x \in S : \A y \in S : x >= y

\* The legs that decode, in document order (lines 66-73).
RECURSIVE DecodeLegs(_)
DecodeLegs(leg_elements) ==
    IF leg_elements = <<>> THEN <<>>
    ELSE LET leg == _parse_leg(Head(leg_elements))
         IN  (IF IsNone(leg) THEN <<>> ELSE <<Val(leg)>>)
                 \o DecodeLegs(Tail(leg_elements))

\* Mutant: the loop has no `break' and keeps the last departure time found.
FirstDeparture_NoBreak(legs) ==
    LET with == {i \in 1..Len(legs) : ~IsNone(legs[i].departure_time)}
    IN  IF with = {} THEN None ELSE legs[MaxOf(with)].departure_time

\* Lines 80-84: the departure time of the first leg that has one.
FirstDeparture(legs) ==
    LET with == {i \in 1..Len(legs) : ~IsNone(legs[i].departure_time)}
    IN  IF with = {} THEN None ELSE legs[MinOf(with)].departure_time

\* Lines 87-91: the arrival time of the last leg that has one.
LastArrival(legs) ==
    LET with == {i \in 1..Len(legs) : ~IsNone(legs[i].arrival_time)}
    IN  IF with = {} THEN None ELSE legs[MaxOf(with)].arrival_time

\* int((b - a).total_seconds() / 60)
MinutesBetween(a, b) ==
    IF SubRaises(b, a) THEN Raise("TypeError")
    ELSE Return(PyIntTrunc(TotalSeconds(b, a), 60))

\* Lines 99-104: what one leg adds to the fallback sum.  `if
\* leg.duration_minutes:' is false for None and for 0.
LegContribution(leg) ==
    IF ~IsNone(leg.duration_minutes) /\ Val(leg.duration_minutes) # 0
    THEN Return(Val(leg.duration_minutes))
    ELSE IF ~IsNone(leg.departure_time) /\ ~IsNone(leg.arrival_time)
    THEN MinutesBetween(Val(leg.departure_time), Val(leg.arrival_time))
    ELSE Return(0)

\* Mutant: the duration is always the sum of the legs' own durations.
TotalDuration_SumOnly(legs, departure_time, arrival_time) ==
    IF \E i \in 1..Len(legs) : LegContribution(legs[i]).exc
    THEN Raise("TypeError")
    ELSE Return(SumSeq([i \in 1..Len(legs) |-> LegContribution(legs[i]).ret]))

\* Lines 94-104.
TotalDuration(legs, departure_time, arrival_time) ==
    IF ~IsNone(departure_time) /\ ~IsNone(arrival_time)
    THEN MinutesBetween(Val(departure_time), Val(arrival_time))
    ELSE IF \E i \in 1..Len(legs) : LegContribution(legs[i]).exc
    THEN Raise("TypeError")
    ELSE Return(SumSeq([i \in 1..Len(legs) |-> LegContribution(legs[i]).ret]))

\* Lines 107-108.
IsWalking(leg) == leg.mode \in {"walk", "walking"}

\* Mutant: walking legs are counted too.
Transfers_AllLegs(legs) == Max(0, Len(legs) - 1)

Transfers(legs) ==
    Max(0, Cardinality({i \in 1..Len(legs) : ~IsWalking(legs[i])}) - 1)

\* Lines 78-124 on a non-empty list of legs: the Trip, or the exception.
AssembleTrip(legs) ==
    LET departure_time == FirstDeparture(legs)
        arrival_time == LastArrival(legs)
        total_duration == TotalDuration(legs, departure_time, arrival_time)
        dep == IF IsNone(departure_time) THEN legs[1].departure_time
               ELSE departure_time
        arr == IF IsNone(arrival_time) THEN legs[Len(legs)].arrival_time
               ELSE arrival_time
    IN  IF total_duration.exc THEN total_duration
        ELSE IF TripInvalid(dep, arr) THEN Raise("ValidationError")
        ELSE Return(Trip(legs, total_duration.ret, dep, arr, Transfers(legs)))

\* Mutant: no `if not legs' check, and a Trip without times is accepted.
_parse_trip_NoEmptyCheck(trip_elem) ==
    LET legs == DecodeLegs(trip_elem.Leg)
    IN  IF legs = <<>> THEN Some(Trip(<<>>, 0, None, None, 0))
        ELSE LET trip == AssembleTrip(legs)
             IN  IF trip.exc THEN None ELSE Some(trip.ret)

\* Optional[Trip]: `except Exception: return None'.
_parse_trip(trip_elem) ==
    LET legs == DecodeLegs(trip_elem.Leg)
    IN  IF legs = <<>> THEN None
        ELSE LET trip == AssembleTrip(legs)
             IN  IF trip.exc THEN None ELSE Some(trip.ret)

----------------------------------------------------------------------------
(* Search-result place: OJPParser._parse_place_result *)

\* The text of a number element: float() parses it (num) or raises
\* ValueError; float(None) raises TypeError.  None stands for the exception.
NumberText(v) == [num |-> TRUE, v |-> v]
JunkNumberText == [num |-> FALSE, v |-> 0]

PyFloat(text) ==
    IF IsNone(text) \/ ~Val(text).num THEN None ELSE Some(Val(text).v)

\* Coordinates(...): longitude in [-180, 180], latitude in [-90, 90], in
\* degrees.  TRUE when pydantic raises ValidationError (a ValueError).
CoordinatesInvalid(longitude, latitude) ==
    \/ longitude < -180 \/ longitude > 180
    \/ latitude < -90 \/ latitude > 90

Coordinates(longitude, latitude) ==
    [longitude |-> longitude, latitude |-> latitude]

\* Lines 473-487.
PlaceCoordinates(place) ==
    IF place.GeoPosition = <<>> THEN None
    ELSE
      LET geo == Head(place.GeoPosition)
      IN  IF geo.Longitude = <<>> \/ geo.Latitude = <<>> THEN None
          ELSE
            LET lon == PyFloat(Head(geo.Longitude).text)
                lat == PyFloat(Head(geo.Latitude).text)
            IN  IF IsNone(lon) \/ IsNone(lat) THEN None
                ELSE IF CoordinatesInvalid(Val(lon), Val(lat)) THEN None
                ELSE Some(Coordinates(Val(lon), Val(lat)))

\* Lines 495-502, probability in hundredths.
PlaceProbability(place_elem) ==
    IF place_elem.Probability = <<>> THEN None
    ELSE PyFloat(Head(place_elem.Probability).text)

\* Mutant: StopPlaceName is not looked at; a place without Name/Text is
\* named "Unknown".
_parse_place_result_NoFallback(place_elem) ==
    IF place_elem.Place = <<>> THEN None
    ELSE
      LET place == Head(place_elem.Place)
          primary == FirstTextOr(place.NameText, None)
          name == IF IsNone(primary) THEN Some("Unknown") ELSE primary
          location_id == FirstTextOr(place.StopPlaceRef, None)
          probability == PlaceProbability(place_elem)
      IN  IF LocationInvalid(name, probability) THEN None
          ELSE Some(Location(location_id, Val(name), PlaceCoordinates(place),
                             probability))

_parse_place_result(place_elem) ==
    IF place_elem.Place = <<>> THEN None
    ELSE
      LET place == Head(place_elem.Place)
          primary == FirstTextOr(place.NameText, None)
          name == IF IsNone(primary)
                  THEN FirstTextOr(place.StopPlaceNameText, None)
                  ELSE primary
          location_id == FirstTextOr(place.StopPlaceRef, None)
          probability == PlaceProbability(place_elem)
      IN  IF IsNone(name) THEN None
          ELSE IF LocationInvalid(name, probability) THEN None
          ELSE Some(Location(location_id, Val(name), PlaceCoordinates(place),
                             probability))

----------------------------------------------------------------------------
(* Document Parser entry points *)

\* Lines 32-35 and 52-55: the results that decode, in document order.
RECURSIVE CollectTrips(_)
CollectTrips(trip_results) ==
    IF trip_results = <<>> THEN <<>>
    ELSE LET trip == _parse_trip(Head(trip_results))
         IN  (IF IsNone(trip) THEN <<>> ELSE <<Val(trip)>>)
                 \o CollectTrips(Tail(trip_results))

RECURSIVE CollectLocations(_)
CollectLocations(place_results) ==
    IF place_results = <<>> THEN <<>>
    ELSE LET location == _parse_place_result(Head(place_results))
         IN  (IF IsNone(location) THEN <<>> ELSE <<Val(location)>>)
                 \o CollectLocations(Tail(place_results))

\* etree.fromstring(xml_content.encode('utf-8'))
FromString(xml_content) ==
    IF xml_content.wellformed THEN Return(xml_content)
    ELSE Raise("XMLSyntaxError")

\* Mutant: the parse error is not caught.
parse_trip_response_NoHandler(xml_content) ==
    LET root == FromString(xml_content)
    IN  IF root.exc THEN root
        ELSE Return(TripResponse(TRUE, None, CollectTrips(root.ret.TripResult)))

parse_trip_response(xml_content) ==
    LET root == FromString(xml_content)
    IN  IF root.exc
        THEN Return(TripResponse(FALSE,
                 Some(FString("Failed to parse trip response: ", root.ret)),
                 <<>>))
        ELSE Return(TripResponse(TRUE, None, CollectTrips(root.ret.TripResult)))

\* Mutant: a place result that does not decode fails the whole response.
parse_location_response_AbortOnFailure(xml_content) ==
    LET root == FromString(xml_content)
    IN  IF root.exc
        THEN Return(LocationResponse(FALSE,
                 Some(FString("Failed to parse location response: ", root.ret)),
                 <<>>))
        ELSE IF \E i \in 1..Len(root.ret.PlaceResult) :
                    IsNone(_parse_place_result(root.ret.PlaceResult[i]))
        THEN Return(LocationResponse(FALSE,
                 Some(FString("Failed to parse location response: ", "")), <<>>))
        ELSE Return(LocationResponse(TRUE, None,
                 CollectLocations(root.ret.PlaceResult)))

parse_location_response(xml_content) ==
    LET root == FromString(xml_content)
    IN  IF root.exc
        THEN Return(LocationResponse(FALSE,
                 Some(FString("Failed to parse location response: ", root.ret)),
                 <<>>))
        ELSE Return(LocationResponse(TRUE, None,
                 CollectLocations(root.ret.PlaceResult)))

----------------------------------------------------------------------------
(* OJPClient *)

\* What the HTTP exchange does: a 2xx response carrying the document, a
\* non-2xx status (raise_for_status), a transport failure, or any other
\* exception raised while the request is built or sent.
TransportOutcomes == {"ok", "HTTPStatusError", "RequestError", "Exception"}

\* The try block of both client operations up to the parse (lines 50-71 and
\* 98-113): the response text, or the exception.
Post(outcome, xml_content) ==
    IF outcome = "ok" THEN Return(xml_content) ELSE Raise(outcome)

\* Mutant: no catch-all handler after the two httpx handlers.
trip_request_NoCatchAll(outcome, xml_content) ==
    LET posted == Post(outcome, xml_content)
    IN  IF ~posted.exc THEN parse_trip_response(posted.ret)
        ELSE IF posted.ret = "HTTPStatusError"
        THEN Return(TripResponse(FALSE, Some(FString("HTTP error ", "status")),
                                 <<>>))
        ELSE IF posted.ret = "RequestError"
        THEN Return(TripResponse(FALSE, Some(FString("Request error: ", "")),
                                 <<>>))
        ELSE posted

trip_request(outcome, xml_content) ==
    LET posted == Post(outcome, xml_content)
    IN  IF ~posted.exc THEN parse_trip_response(posted.ret)
        ELSE IF posted.ret = "HTTPStatusError"
        THEN Return(TripResponse(FALSE, Some(FString("HTTP error ", "status")),
                                 <<>>))
        ELSE IF posted.ret = "RequestError"
        THEN Return(TripResponse(FALSE, Some(FString("Request error: ", "")),
                                 <<>>))
        ELSE Return(TripResponse(FALSE, Some(FString("Unexpected error: ", "")),
                                 <<>>))

\* `if not params.query': None and the empty string.
location_search(params_query, outcome, xml_content) ==
    IF IsNone(params_query) \/ Val(params_query) = ""
    THEN Return(LocationResponse(FALSE,
             Some(FString("Query parameter is required for location search",
                          "")), <<>>))
    ELSE
      LET posted == Post(outcome, xml_content)
      IN  IF ~posted.exc THEN parse_location_response(posted.ret)
          ELSE IF posted.ret = "HTTPStatusError"
          THEN Return(LocationResponse(FALSE,
                   Some(FString("HTTP error ", "status")), <<>>))
          ELSE IF posted.ret = "RequestError"
          THEN Return(LocationResponse(FALSE,
                   Some(FString("Request error: ", "")), <<>>))
          ELSE Return(LocationResponse(FALSE,
                   Some(FString("Unexpected error: ", "")), <<>>))

----------------------------------------------------------------------------
(* The documents the provider sends: one record per element, one field per *)
(* XPath query of the parser.                                              *)

\* LegBoard / LegAlight: StopPointName/Text, siri:StopPointRef, and the
\* EstimatedTime and TimetabledTime of its ServiceDeparture / ServiceArrival.
StopElem(name, ref, estimated, timetabled) ==
    [StopPointNameText |-> name, StopPointRef |-> ref,
     EstimatedTime |-> estimated, TimetabledTime |-> timetabled]

ServiceElem(line, code, direction, pt_mode, rail_submode, bus_submode) ==
    [PublishedServiceNameText |-> line, PublicCode |-> code,
     DestinationText |-> direction, PtMode |-> pt_mode,
     RailSubmode |-> rail_submode, BusSubmode |-> bus_submode]

TimedLegElem(board, alight, service) ==
    [LegBoard |-> board, LegAlight |-> alight, Service |-> service]

\* LegStart / LegEnd of a TransferLeg.
EndpointElem(name, n, ref) ==
    [NameText |-> name, nText |-> n, StopPointRef |-> ref]

TransferLegElem(start, end, transfer_type, duration) ==
    [LegStart |-> start, LegEnd |-> end, TransferType |-> transfer_type,
     Duration |-> duration]

\* ContinuousLeg: its TransferLeg descendants and its own Duration children
\* before and after them in document order.
ContinuousLegElem(transfer_legs, duration_before, duration_after) ==
    [TransferLeg |-> transfer_legs, DurationBefore |-> duration_before,
     DurationAfter |-> duration_after]

\* Leg: TimedLeg and ContinuousLeg descendants, TransferLeg and Duration
\* children.
LegElem(timed, continuous, transfer, duration) ==
    [TimedLeg |-> timed, ContinuousLeg |-> continuous, TransferLeg |-> transfer,
     Duration |-> duration]

TripResultElem(legs) == [Leg |-> legs]

GeoPositionElem(longitude, latitude) ==
    [Longitude |-> longitude, Latitude |-> latitude]

PlaceElem(name, stop_place_name, geo, ref) ==
    [NameText |-> name, StopPlaceNameText |-> stop_place_name,
     GeoPosition |-> geo, StopPlaceRef |-> ref]

PlaceResultElem(place, probability) ==
    [Place |-> place, Probability |-> probability]

\* The response text: well-formed XML with its TripResult and PlaceResult
\* elements, or text that is not well-formed.
Document(wellformed, trip_results, place_results) ==
    [wellformed |-> wellformed, TripResult |-> trip_results,
     PlaceResult |-> place_results]

Malformed == Document(FALSE, <<>>, <<>>)

\* Seconds since midnight.
Clock(h, m, sec) == h * 3600 + m * 60 + sec

Text(s) == <<TextElem(Some(s))>>
TimeAt(t, aware) == <<TextElem(Some(TimeText(t, aware)))>>

\* A timed leg of a bus line with the given time elements at its stops.
BusLeg(departure, arrival) ==
    LegElem(<<TimedLegElem(
                <<StopElem(Text("Zuerich HB"), Text("8503000"), <<>>, departure)>>,
                <<StopElem(Text("Bern"), Text("8507000"), <<>>, arrival)>>,
                <<ServiceElem(Text("31"), <<>>, Text("Bern"), Text("bus"), <<>>,
                              <<>>)>>)>>,
            <<>>, <<>>, <<>>)

\* A ContinuousLeg with a nested TransferLeg of the given type and Duration.
WalkLeg(transfer_type, duration) ==
    LegElem(<<>>,
            <<ContinuousLegElem(
                <<TransferLegElem(<<EndpointElem(Text("Bern"), <<>>, <<>>)>>,
                                  <<EndpointElem(<<>>, Text("Bern, Bahnhof"),
                                                 <<>>)>>,
                                  transfer_type, duration)>>,
                <<>>, <<>>)>>,
            <<>>, <<>>)

\* A TransferLeg that is a child of the Leg, with the Leg's own Duration.
DirectTransferLeg(transfer_type, duration) ==
    LegElem(<<>>, <<>>,
            <<TransferLegElem(<<>>, <<>>, transfer_type, <<>>)>>, duration)

\* A Leg with none of the three shapes.
EmptyLeg == LegElem(<<>>, <<>>, <<>>, <<>>)

\* A TimedLeg without its LegAlight.
HalfTimedLeg ==
    LegElem(<<TimedLegElem(<<StopElem(Text("Bern"), <<>>, <<>>, <<>>)>>, <<>>,
                           <<>>)>>, <<>>, <<>>, <<>>)

PT5M == <<"P", "T", "5", "M">>
PT10M == <<"P", "T", "1", "0", "M">>

BusLeg_0900_0920 == BusLeg(TimeAt(Clock(9, 0, 0), TRUE), TimeAt(Clock(9, 20, 0), TRUE))
BusLeg_0930_1000 == BusLeg(TimeAt(Clock(9, 30, 0), TRUE), TimeAt(Clock(10, 0, 0), TRUE))
BusLeg_Untimed == BusLeg(<<>>, <<>>)
WalkLeg_5 == WalkLeg(Text("walk"), Text(PT5M))

BusLeg_0900_0920s45 == BusLeg(TimeAt(Clock(9, 0, 0), TRUE), TimeAt(Clock(9, 20, 45), TRUE))
BusLeg_Naive == BusLeg(TimeAt(Clock(9, 0, 0), FALSE), TimeAt(Clock(9, 20, 0), FALSE))
BusLeg_1000_Only == BusLeg(TimeAt(Clock(10, 0, 0), TRUE), <<>>)
BusLeg_JunkDeparture == BusLeg(<<TextElem(Some(JunkTimeText))>>, TimeAt(Clock(9, 20, 0), TRUE))
CycleLeg_10 == DirectTransferLeg(Text("Cycle"), Text(PT10M))

GoodPlace ==
    PlaceResultElem(
        <<PlaceElem(Text("Bern"), Text("Bern (Bahnhof)"),
                    <<GeoPositionElem(<<TextElem(Some(NumberText(7)))>>,
                                      <<TextElem(Some(NumberText(47)))>>)>>,
                    Text("8507000"))>>,
        <<TextElem(Some(NumberText(95)))>>)

FallbackNamePlace ==
    PlaceResultElem(<<PlaceElem(<<>>, Text("Thun"), <<>>, Text("8507100"))>>,
                    <<>>)

NoPlace == PlaceResultElem(<<>>, <<>>)

----------------------------------------------------------------------------
(* Bounds and input sets *)

MaxResults == 3     \* result elements in a document
MaxDocLegs == 1     \* legs of a trip result in a document of several results
MaxLegs == 4        \* legs of the trip result of a one-result document

SeqsUpTo(S, n) == UNION {[1..k -> S] : k \in 0..n}

DocLegElems == {BusLeg_0900_0920, WalkLeg_5, EmptyLeg}
PlaceResultElems == {GoodPlace, FallbackNamePlace, NoPlace}

TripLegElems ==
    {BusLeg_Untimed, BusLeg_0900_0920, WalkLeg_5, BusLeg_0930_1000,
     BusLeg_0900_0920s45, BusLeg_Naive, BusLeg_1000_Only, BusLeg_JunkDeparture,
     CycleLeg_10, EmptyLeg, HalfTimedLeg}

DocTripResults == {TripResultElem(legs) : legs \in SeqsUpTo(DocLegElems, MaxDocLegs)}

Queries == {None, Some(""), Some("Bern")}

----------------------------------------------------------------------------
(* The request/response cycle *)

Idle ==
    /\ pc = "idle"
    /\ op = ""
    /\ transport = "none"
    /\ query = None
    /\ response = None

\* The document is not well-formed, or a trip response, or a location
\* response.
Init ==
    /\ Idle
    /\ \/ document = Malformed
       \/ \E results \in SeqsUpTo(DocTripResults, MaxResults) :
              document = Document(TRUE, results, <<>>)
       \/ \E results \in SeqsUpTo(PlaceResultElems, MaxResults) \ {<<>>} :
              document = Document(TRUE, <<>>, results)

\* The caller gets the envelope, or the exception the operation let through.
Outcome(name, result) ==
    /\ op' = name
    /\ pc' = IF result.exc THEN "raised" ELSE "returned"
    /\ response' = IF result.exc THEN None ELSE Some(result.ret)

ParseTripResponse ==
    /\ pc = "idle"
    /\ Outcome("parse_trip_response", parse_trip_response(document))
    /\ UNCHANGED <<document, transport, query>>

ParseLocationResponse ==
    /\ pc = "idle"
    /\ Outcome("parse_location_response", parse_location_response(document))
    /\ UNCHANGED <<document, transport, query>>

TripRequest ==
    /\ pc = "idle"
    /\ \E outcome \in TransportOutcomes :
          /\ transport' = outcome
          /\ Outcome("trip_request", trip_request(outcome, document))
    /\ UNCHANGED <<document, query>>

\* No request is sent for a missing query.
LocationSearch ==
    /\ pc = "idle"
    /\ \E q \in Queries :
          /\ query' = q
          /\ \E outcome \in IF IsNone(q) \/ Val(q) = "" THEN {"none"}
                            ELSE TransportOutcomes :
                /\ transport' = outcome
                /\ Outcome("location_search",
                           location_search(q, outcome, document))
    /\ UNCHANGED document

Next ==
    \/ ParseTripResponse
    \/ ParseLocationResponse
    \/ TripRequest
    \/ LocationSearch

Spec == Init /\ [][Next]_vars

\* The Trip Assembler on every leg sequence of a one-result document.
TripInit ==
    /\ Idle
    /\ \E legs \in SeqsUpTo(TripLegElems, MaxLegs) :
          document = Document(TRUE, <<TripResultElem(legs)>>, <<>>)

TripNext == ParseTripResponse

TripSpec == TripInit /\ [][TripNext]_vars

----------------------------------------------------------------------------
(* The Duration Decoder on its own: every text of a prefix followed by up  *)
(* to MaxDurationLen characters, and some longer ones.                     *)

MaxDurationLen == 5

DurationChars == {"0", "1", "3", "H", "M", "S"}
DurationPrefixes == {<<"P", "T">>, <<"P">>}

PT1H30M == <<"P", "T", "1", "H", "3", "0", "M">>
PT6M == <<"P", "T", "6", "M">>
PT2H == <<"P", "T", "2", "H">>

DurationExamples ==
    {PT1H30M, PT6M, PT2H, PT5M, PT10M,
     <<>>, <<"T", "1", "H">>, <<"1", "H", "3", "0", "M">>,
     <<"P", "T", "1", ".", "5", "H">>, <<"P", "T", "1", "H", "3", "0", ".", "5", "M">>,
     <<"P", "T", "1", "H", "3", "0", "M", "1", "0", "S">>,
     <<"P", "T", "1", "H", "2", "H", "3", "M">>,
     <<"P", "T", "-", "5", "M">>, <<"P", "T", " ", "5", "M">>,
     <<"P", "1", "D", "T", "1", "H">>}

DurationTexts ==
    {prefix \o body : prefix \in DurationPrefixes,
                      body \in SeqsUpTo(DurationChars, MaxDurationLen)}
        \cup DurationExamples

DurationInit ==
    /\ Idle
    /\ document \in DurationTexts

\* The call returns the minutes, or None.
DecodeDuration ==
    /\ pc = "idle"
    /\ Outcome("_parse_iso_duration", Return(_parse_iso_duration(document)))
    /\ UNCHANGED <<document, transport, query>>

DurationNext == DecodeDuration

DurationSpec == DurationInit /\ [][DurationNext]_vars

----------------------------------------------------------------------------
(* The Leg Decoder on its own: one Leg element of each shape, with every   *)
(* combination of mode fields and of endpoint fields.                      *)

\* A child that is missing, empty, or has one of the given texts.
OptText(texts) == {<<>>, <<TextElem(None)>>} \cup {Text(t) : t \in texts}

PtModeTexts ==
    {"rail", "Rail", "bus", "Bus", "tram", "Tram", "metro", "funicular",
     "cableCar", "water", "coach"}
RailSubmodeTexts ==
    {"regionalRail", "suburbanRailway", "interregionalRail", "highSpeedRail",
     "local", "railShuttle"}
BusSubmodeTexts == {"localBus", "expressBus", "nightBus", "regionalBus"}

ServiceElems ==
    {<<>>} \cup
    {<<ServiceElem(Text("IC 1"), <<>>, Text("Bern"), pt_mode, rail_submode,
                   bus_submode)>> :
        pt_mode \in OptText(PtModeTexts),
        rail_submode \in OptText(RailSubmodeTexts),
        bus_submode \in OptText(BusSubmodeTexts)}

StopElems ==
    {<<>>} \cup
    {<<StopElem(name, ref, <<>>, TimeAt(Clock(9, 0, 0), TRUE))>> :
        name \in OptText({"Bern"}), ref \in {<<>>, Text("8507000")}}

EndpointElems ==
    {<<>>} \cup
    {<<EndpointElem(name, n, ref)>> :
        name \in OptText({"Bern"}), n \in OptText({"Bern, Bahnhof"}),
        ref \in {<<>>, Text("8507000")}}

\* Timed legs with both stops named, over every Service.
ModeLegElems ==
    {LegElem(<<TimedLegElem(
                 <<StopElem(Text("Zuerich HB"), Text("8503000"), <<>>,
                            TimeAt(Clock(9, 0, 0), TRUE))>>,
                 <<StopElem(Text("Bern"), Text("8507000"), <<>>,
                            TimeAt(Clock(9, 20, 0), TRUE))>>,
                 service)>>, <<>>, <<>>, <<>>) :
        service \in ServiceElems}

\* Legs of the three shapes over every pair of endpoints.
EndpointLegElems ==
    {LegElem(<<TimedLegElem(board, alight, <<>>)>>, <<>>, <<>>, <<>>) :
        board \in StopElems, alight \in StopElems}
    \cup
    {LegElem(<<>>,
             <<ContinuousLegElem(
                 <<TransferLegElem(start, end, Text("walk"), Text(PT5M))>>,
                 <<>>, <<>>)>>, <<>>, <<>>) :
        start \in EndpointElems, end \in EndpointElems}
    \cup
    {LegElem(<<>>, <<>>, <<TransferLegElem(start, end, <<>>, <<>>)>>,
             Text(PT10M)) :
        start \in EndpointElems, end \in EndpointElems}

\* Continuous and transfer legs with a Duration at the leg level (before or
\* after the nested TransferLeg), at the transfer level, at both or nowhere.
DurationLegElems ==
    {LegElem(<<>>,
             <<ContinuousLegElem(
                 <<TransferLegElem(<<>>, <<>>, Text("walk"), nested)>>,
                 before, after)>>, <<>>, <<>>) :
        nested \in {<<>>, Text(PT5M)},
        before \in {<<>>, Text(PT10M), <<TextElem(None)>>},
        after \in {<<>>, Text(PT10M)}}
    \cup
    {LegElem(<<>>, <<>>, <<TransferLegElem(<<>>, <<>>, Text("walk"), nested)>>,
             own) :
        nested \in {<<>>, Text(PT5M)},
        own \in {<<>>, Text(PT10M), <<TextElem(None)>>}}

LegInit ==
    /\ Idle
    /\ document \in ModeLegElems \cup EndpointLegElems \cup DurationLegElems
                        \cup TripLegElems

\* The call returns the Leg, or None.
DecodeLeg ==
    /\ pc = "idle"
    /\ Outcome("_parse_leg", Return(_parse_leg(document)))
    /\ UNCHANGED <<document, transport, query>>

LegNext == DecodeLeg

LegSpec == LegInit /\ [][LegNext]_vars

----------------------------------------------------------------------------
(* The place-result extractor on its own: one PlaceResult with every       *)
(* combination of name, fallback name, position, reference and             *)
(* probability.                                                            *)

NumberElem(v) == <<TextElem(Some(NumberText(v)))>>
JunkNumberElem == <<TextElem(Some(JunkNumberText))>>

GeoPositionElems ==
    {<<>>,
     <<GeoPositionElem(NumberElem(7), NumberElem(47))>>,
     <<GeoPositionElem(JunkNumberElem, NumberElem(47))>>,
     <<GeoPositionElem(NumberElem(7), <<>>)>>,
     <<GeoPositionElem(NumberElem(7), <<TextElem(None)>>)>>,
     <<GeoPositionElem(NumberElem(200), NumberElem(47))>>,
     <<GeoPositionElem(NumberElem(7), NumberElem(-91))>>}

\* In hundredths.
ProbabilityElems ==
    {<<>>, <<TextElem(None)>>, JunkNumberElem, NumberElem(95), NumberElem(0),
     NumberElem(100), NumberElem(150), NumberElem(-5)}

PlaceElems ==
    {<<>>} \cup
    {<<PlaceElem(name, stop_place_name, geo, ref)>> :
        name \in OptText({"Bern"}),
        stop_place_name \in OptText({"Bern (Bahnhof)"}),
        geo \in GeoPositionElems,
        ref \in {<<>>, Text("8507000")}}

PlaceInit ==
    /\ Idle
    /\ \E place \in PlaceElems, probability \in ProbabilityElems :
          document = PlaceResultElem(place, probability)

\* The call returns the Location, or None.
DecodePlaceResult ==
    /\ pc = "idle"
    /\ Outcome("_parse_place_result", Return(_parse_place_result(document)))
    /\ UNCHANGED <<document, transport, query>>

PlaceNext == DecodePlaceResult

PlaceSpec == PlaceInit /\ [][PlaceNext]_vars

----------------------------------------------------------------------------
(* The Leg Classifier among siblings: a one-result document whose legs     *)
(* have one shape, several shapes at once, or none.                        *)

MaxSiblings == 3

\* A TimedLeg and a ContinuousLeg below the same Leg.
TimedOverContinuous ==
    LegElem(BusLeg_0900_0920.TimedLeg, WalkLeg_5.ContinuousLeg, <<>>, <<>>)

\* A ContinuousLeg below a Leg that also has a TransferLeg child.
ContinuousOverTransfer ==
    LegElem(<<>>, WalkLeg_5.ContinuousLeg, CycleLeg_10.TransferLeg,
            CycleLeg_10.Duration)

\* A TimedLeg without LegAlight beside a ContinuousLeg.
HalfTimedOverContinuous ==
    LegElem(HalfTimedLeg.TimedLeg, WalkLeg_5.ContinuousLeg, <<>>, <<>>)

\* A ContinuousLeg without TransferLeg below a Leg with a TransferLeg child.
EmptyContinuousOverTransfer ==
    LegElem(<<>>, <<ContinuousLegElem(<<>>, <<>>, <<>>)>>,
            CycleLeg_10.TransferLeg, CycleLeg_10.Duration)

SiblingLegElems ==
    {BusLeg_0930_1000, WalkLeg_5, CycleLeg_10, EmptyLeg, HalfTimedLeg,
     TimedOverContinuous, ContinuousOverTransfer, HalfTimedOverContinuous,
     EmptyContinuousOverTransfer}

SiblingInit ==
    /\ Idle
    /\ \E legs \in SeqsUpTo(SiblingLegElems, MaxSiblings) :
          document = Document(TRUE, <<TripResultElem(legs)>>, <<>>)

SiblingNext == ParseTripResponse

SiblingSpec == SiblingInit /\ [][SiblingNext]_vars

----------------------------------------------------------------------------
(* Properties *)

\* math.floor(num / den), den > 0.
Floor(num, den) == num \div den

Called(name) == pc # "idle" /\ op = name
Envelope == Val(response)
Results(envelope) ==
    IF "trips" \in DOMAIN envelope THEN envelope.trips ELSE envelope.locations

Failure(envelope) ==
    /\ ~envelope.success
    /\ ~IsNone(envelope.error_message)
    /\ ~IsEmptyStr(Val(envelope.error_message))
    /\ Results(envelope) = <<>>

\* C1: when the text handed to parse_trip_response or
\* parse_location_response is not well-formed, the call returns an envelope
\* with success = false, a non-empty error message and no results.
C1_MalformedDocumentFails ==
    (pc # "idle" /\ op \in {"parse_trip_response", "parse_location_response"}
        /\ ~document.wellformed)
    => (pc = "returned" /\ Failure(Envelope))

C1_Witness ==
    /\ pc = "returned"
    /\ op = "parse_trip_response"
    /\ ~document.wellformed
    /\ ~Envelope.success

FailedTrips(doc) ==
    {i \in 1..Len(doc.TripResult) : IsNone(_parse_trip(doc.TripResult[i]))}
FailedPlaces(doc) ==
    {i \in 1..Len(doc.PlaceResult) :
        IsNone(_parse_place_result(doc.PlaceResult[i]))}

\* C2: on a well-formed document with N result elements of which k do not
\* decode (k = 1 in particular), the entry point returns success = true with
\* exactly N - k results, and every result element that decodes is in them.
C2_FailedResultIsSkipped ==
    /\ (Called("parse_trip_response") /\ document.wellformed)
       => /\ pc = "returned"
          /\ Envelope.success
          /\ Len(Envelope.trips)
                = Len(document.TripResult) - Cardinality(FailedTrips(document))
          /\ \A i \in (1..Len(document.TripResult)) \ FailedTrips(document) :
                \E j \in 1..Len(Envelope.trips) :
                    Envelope.trips[j] = Val(_parse_trip(document.TripResult[i]))
    /\ (Called("parse_location_response") /\ document.wellformed)
       => /\ pc = "returned"
          /\ Envelope.success
          /\ Len(Envelope.locations)
                = Len(document.PlaceResult) - Cardinality(FailedPlaces(document))
          /\ \A i \in (1..Len(document.PlaceResult)) \ FailedPlaces(document) :
                \E j \in 1..Len(Envelope.locations) :
                    Envelope.locations[j]
                        = Val(_parse_place_result(document.PlaceResult[i]))

C2_Witness ==
    /\ pc = "returned"
    /\ op = "parse_location_response"
    /\ Len(document.PlaceResult) = 3
    /\ Cardinality(FailedPlaces(document)) = 1
    /\ Envelope.success
    /\ Len(Envelope.locations) = 2

\* C3: each of the four operations returns an envelope (it lets no exception
\* through); success = true comes without an error message, success = false
\* with an error message and an empty result collection.
C3_EnvelopeAlwaysReturned ==
    (pc # "idle")
    => /\ pc = "returned"
       /\ Envelope.success => IsNone(Envelope.error_message)
       /\ ~Envelope.success
            => (~IsNone(Envelope.error_message) /\ Results(Envelope) = <<>>)

C3_Witness ==
    /\ pc = "returned"
    /\ op = "trip_request"
    /\ transport = "Exception"
    /\ ~Envelope.success
    /\ ~IsNone(Envelope.error_message)

UndecodableResults(doc) ==
    {i \in 1..Len(doc.TripResult) : DecodeLegs(doc.TripResult[i].Leg) = <<>>}

\* C4: every Trip of a returned TripResponse has at least one leg; a trip
\* result none of whose legs decodes gives no Trip (there are no more Trips
\* than results with a decodable leg), the envelope keeps success = true and
\* the Trips of the other results are in it.
C4_NoEmptyTrip ==
    (Called("parse_trip_response") /\ document.wellformed)
    => /\ pc = "returned"
       /\ Envelope.success
       /\ \A j \in 1..Len(Envelope.trips) : Envelope.trips[j].legs # <<>>
       /\ Len(Envelope.trips)
            <= Len(document.TripResult)
                 - Cardinality(UndecodableResults(document))
       /\ \A i \in 1..Len(document.TripResult) :
            LET trip == _parse_trip(document.TripResult[i])
            IN  ~IsNone(trip)
                => \E j \in 1..Len(Envelope.trips) : Envelope.trips[j] = Val(trip)

C4_Witness ==
    /\ pc = "returned"
    /\ op = "parse_trip_response"
    /\ \E i \in UndecodableResults(document) : document.TripResult[i].Leg # <<>>
    /\ Envelope.success
    /\ Len(Envelope.trips) = 2

NonWalkingLegs(legs) ==
    {i \in 1..Len(legs) : legs[i].mode # "walk" /\ legs[i].mode # "walking"}

\* C5: in every Trip, transfers = max(0, n - 1) where n is the number of its
\* legs whose mode is neither "walk" nor "walking".
C5_TransferCount ==
    Called("parse_trip_response")
    => \A j \in 1..Len(Envelope.trips) :
          LET trip == Envelope.trips[j]
              n == Cardinality(NonWalkingLegs(trip.legs))
          IN  trip.transfers = IF n >= 1 THEN n - 1 ELSE 0

\* A Trip with a walking leg, a non-walking leg without times and two timed
\* legs.
C5_Witness ==
    /\ pc = "returned"
    /\ Len(Envelope.trips) = 1
    /\ LET trip == Envelope.trips[1]
       IN  /\ Len(trip.legs) = 4
           /\ \E i \in 1..4 : trip.legs[i].mode = "walk"
           /\ \E i \in 1..4 : trip.legs[i].mode = "cycle"
           /\ trip.transfers = 2

C6_Legs == <<BusLeg_Untimed, BusLeg_0900_0920, WalkLeg_5, BusLeg_0930_1000>>
C6_Document == Document(TRUE, <<TripResultElem(C6_Legs)>>, <<>>)

C6_Trip(transfers) ==
    /\ pc = "returned"
    /\ Len(Envelope.trips) = 1
    /\ LET trip == Envelope.trips[1]
       IN  /\ Len(trip.legs) = 4
           /\ trip.departure_time = Some(Instant(Clock(9, 0, 0), TRUE))
           /\ trip.arrival_time = Some(Instant(Clock(10, 0, 0), TRUE))
           /\ trip.total_duration_minutes = 60
           /\ trip.transfers = transfers

\* C6 (amended): for the legs [timed leg without times or duration][timed
\* 09:00-09:20][walk, duration 5][timed 09:30-10:00] the Trip has departure
\* 09:00, arrival 10:00, total duration 60 and transfers 2 (three non-walking
\* legs minus one).
C6_ExampleTrip ==
    (Called("parse_trip_response") /\ document = C6_Document) => C6_Trip(2)

\* C6 as stated: the same Trip with transfers 1.
C6_AsStated ==
    (Called("parse_trip_response") /\ document = C6_Document) => C6_Trip(1)

C6_Witness ==
    /\ pc = "returned"
    /\ op = "parse_trip_response"
    /\ document = C6_Document
    /\ Len(Envelope.trips) = 1

\* C7 as stated: a trip result whose only decodable leg is one walking leg
\* without departure or arrival time gives a Trip with transfers 0 and absent
\* departure and arrival times.
C7_AsStated ==
    (/\ Called("parse_trip_response")
     /\ Len(document.TripResult) = 1
     /\ LET legs == DecodeLegs(document.TripResult[1].Leg)
        IN  /\ Len(legs) = 1
            /\ legs[1].mode \in {"walk", "walking"}
            /\ IsNone(legs[1].departure_time)
            /\ IsNone(legs[1].arrival_time))
    => /\ pc = "returned"
       /\ Len(Envelope.trips) = 1
       /\ Envelope.trips[1].transfers = 0
       /\ IsNone(Envelope.trips[1].departure_time)
       /\ IsNone(Envelope.trips[1].arrival_time)

\* C8: in every Trip, departure_time is the departure time of the first leg
\* that has one and arrival_time the arrival time of the last leg that has
\* one.
C8_TripTimes ==
    Called("parse_trip_response")
    => \A j \in 1..Len(Envelope.trips) :
          LET trip == Envelope.trips[j]
              legs == trip.legs
          IN  /\ \E i \in 1..Len(legs) :
                    /\ ~IsNone(legs[i].departure_time)
                    /\ \A k \in 1..(i - 1) : IsNone(legs[k].departure_time)
                    /\ trip.departure_time = legs[i].departure_time
              /\ \E i \in 1..Len(legs) :
                    /\ ~IsNone(legs[i].arrival_time)
                    /\ \A k \in (i + 1)..Len(legs) : IsNone(legs[k].arrival_time)
                    /\ trip.arrival_time = legs[i].arrival_time

\* A Trip whose first leg has no departure time, whose last leg has no
\* arrival time, and in which two legs have different departure times.
C8_Witness ==
    /\ pc = "returned"
    /\ Len(Envelope.trips) = 1
    /\ LET legs == Envelope.trips[1].legs
       IN  /\ IsNone(legs[1].departure_time)
           /\ IsNone(legs[Len(legs)].arrival_time)
           /\ \E i, k \in 1..Len(legs) :
                 /\ i < k
                 /\ ~IsNone(legs[i].departure_time)
                 /\ ~IsNone(legs[k].departure_time)
                 /\ legs[i].departure_time # legs[k].departure_time

\* C9 as stated: when both trip times are found, total_duration_minutes is
\* the floor of (arrival - departure in seconds) / 60, negative and
\* fractional differences included.
C9_AsStated ==
    Called("parse_trip_response")
    => \A j \in 1..Len(Envelope.trips) :
          LET trip == Envelope.trips[j]
          IN  trip.total_duration_minutes
                = Floor(Val(trip.arrival_time).t - Val(trip.departure_time).t, 60)

\* C10 as stated: every Trip has total_duration_minutes >= 0 and
\* transfers >= 0.
C10_AsStated ==
    Called("parse_trip_response")
    => \A j \in 1..Len(Envelope.trips) :
          /\ Envelope.trips[j].total_duration_minutes >= 0
          /\ Envelope.trips[j].transfers >= 0

\* What the claim lets one leg add: its own duration if present, else
\* arrival - departure in minutes if it has both instants, else zero.
C11_LegMinutes(leg) ==
    IF ~IsNone(leg.duration_minutes) THEN Val(leg.duration_minutes)
    ELSE IF ~IsNone(leg.departure_time) /\ ~IsNone(leg.arrival_time)
            /\ ~SubRaises(Val(leg.arrival_time), Val(leg.departure_time))
    THEN PyIntTrunc(TotalSeconds(Val(leg.arrival_time),
                                 Val(leg.departure_time)), 60)
    ELSE 0

C11_NoTripTimes(legs) ==
    /\ legs # <<>>
    /\ IsNone(FirstDeparture(legs)) \/ IsNone(LastArrival(legs))

\* C11 as stated: when the legs of a trip result do not give both a trip
\* departure and a trip arrival time, the result gives a Trip whose
\* total_duration_minutes is the sum of what each leg adds.
C11_AsStated ==
    (/\ Called("parse_trip_response")
     /\ Len(document.TripResult) = 1
     /\ C11_NoTripTimes(DecodeLegs(document.TripResult[1].Leg)))
    => /\ pc = "returned"
       /\ Len(Envelope.trips) = 1
       /\ LET legs == DecodeLegs(document.TripResult[1].Leg)
          IN  Envelope.trips[1].total_duration_minutes
                = SumSeq([i \in 1..Len(legs) |-> C11_LegMinutes(legs[i])])

\* The decimal value of a string of digits.
RECURSIVE C12_Decimal(_)
C12_Decimal(digits) ==
    IF digits = <<>> THEN 0
    ELSE 10 * C12_Decimal(SubSeq(digits, 1, Len(digits) - 1))
            + DigitVal(digits[Len(digits)])

\* [1-9][0-9]*
C12_Positive(digits) ==
    /\ digits # <<>>
    /\ \A i \in 1..Len(digits) : IsDigit(digits[i])
    /\ digits[1] # "0"

\* text is "PT" hours "H" minutes "M" with either part left out when its
\* digits are <<>>.
C12_Written(text, hours, minutes) ==
    text = <<"P", "T">>
             \o (IF hours = <<>> THEN <<>> ELSE hours \o <<"H">>)
             \o (IF minutes = <<>> THEN <<>> ELSE minutes \o <<"M">>)

\* The pairs <<hours, minutes>> of digit strings that text is made of.
C12_Parts(text) ==
    {hm \in {<<SubSeq(text, 3, i), SubSeq(text, j, Len(text) - 1)>> :
                i \in 2..Len(text), j \in 3..(Len(text) + 1)}
            \cup {<<SubSeq(text, 3, Len(text) - 1), <<>>>>,
                  <<<<>>, SubSeq(text, 3, Len(text) - 1)>>} :
        /\ hm # <<<<>>, <<>>>>
        /\ hm[1] = <<>> \/ C12_Positive(hm[1])
        /\ hm[2] = <<>> \/ C12_Positive(hm[2])
        /\ C12_Written(text, hm[1], hm[2])}

\* C12: for every text PT<h>H<m>M, PT<h>H or PT<m>M with h and m positive
\* decimal integers without leading zeros, _parse_iso_duration returns
\* h * 60 + m, a missing part counting as 0.
C12_WellFormedDuration ==
    Called("_parse_iso_duration")
    => \A hm \in C12_Parts(document) :
          Envelope = Some(C12_Decimal(hm[1]) * 60 + C12_Decimal(hm[2]))

C12_Witness ==
    /\ pc = "returned"
    /\ op = "_parse_iso_duration"
    /\ document = PT1H30M
    /\ C12_Parts(document) = {<<<<"1">>, <<"3", "0">>>>}
    /\ Envelope = Some(90)

C13_Digits(s) == s # <<>> /\ \A i \in 1..Len(s) : IsDigit(s[i])

\* PT[<hours>H][<minutes>M] with at least one component.
C13_InSubset(text) ==
    /\ StartsWithPT(text)
    /\ LET body == SubSeq(text, 3, Len(text))
           n == Len(body)
       IN  /\ n >= 2
           /\ \/ body[n] \in {"H", "M"} /\ C13_Digits(SubSeq(body, 1, n - 1))
              \/ /\ body[n] = "M"
                 /\ \E i \in 2..(n - 2) :
                       /\ body[i] = "H"
                       /\ C13_Digits(SubSeq(body, 1, i - 1))
                       /\ C13_Digits(SubSeq(body, i + 1, n - 1))

\* C13 as stated: for every text outside PT[<hours>H][<minutes>M] (no PT
\* prefix, bare "PT", a seconds component, a trailing number without unit,
\* repeated H, a fractional part) _parse_iso_duration returns None.
C13_AsStated ==
    (Called("_parse_iso_duration") /\ ~C13_InSubset(document))
    => (pc = "returned" /\ Envelope = None)

\* The Leg the call returned.
DecodedLeg == Val(Envelope)

\* The document is a Leg with a TimedLeg that has both stops.
IsTimedLeg(leg_elem) ==
    /\ "TimedLeg" \in DOMAIN leg_elem
    /\ leg_elem.TimedLeg # <<>>
    /\ Head(leg_elem.TimedLeg).LegBoard # <<>>
    /\ Head(leg_elem.TimedLeg).LegAlight # <<>>

\* The text of the first element of a list, None when there is none.
TextOf(elems) == IF elems = <<>> THEN None ELSE Head(elems).text

\* The primary mode of a timed leg: the PtMode text of its Service.
PrimaryMode(leg_elem) ==
    LET service == Head(leg_elem.TimedLeg).Service
    IN  IF service = <<>> THEN None ELSE TextOf(Head(service).PtMode)

RailSubmode(leg_elem) == TextOf(Head(Head(leg_elem.TimedLeg).Service).RailSubmode)
BusSubmode(leg_elem) == TextOf(Head(Head(leg_elem.TimedLeg).Service).BusSubmode)

C14_RailMode(submode) ==
    IF submode = Some("regionalRail") THEN "regional_train"
    ELSE IF submode = Some("suburbanRailway") THEN "s_bahn"
    ELSE IF submode = Some("interregionalRail") THEN "intercity"
    ELSE IF submode = Some("highSpeedRail") THEN "high_speed_rail"
    ELSE "train"

\* C14 as stated: a timed leg whose primary mode is "rail" gets the mode
\* regional_train, s_bahn, intercity or high_speed_rail for the four rail
\* submodes and "train" for any other submode and for no submode.
C14_AsStated ==
    (/\ Called("_parse_leg")
     /\ IsTimedLeg(document)
     /\ PrimaryMode(document) = Some("rail"))
    => /\ pc = "returned"
       /\ ~IsNone(Envelope)
       /\ DecodedLeg.mode = C14_RailMode(RailSubmode(document))

C15_BusMode(submode) ==
    IF submode = Some("expressBus") THEN "express_bus"
    ELSE IF submode = Some("nightBus") THEN "night_bus"
    ELSE "bus"

\* C15: a timed leg whose primary mode is "bus" gets the mode express_bus
\* for submode expressBus, night_bus for nightBus and "bus" for localBus,
\* for any other submode and for no submode; a timed leg with no primary
\* mode (no Service, no PtMode element, or a PtMode without text) gets the
\* mode "public_transport".
C15_BusAndDefaultMode ==
    (Called("_parse_leg") /\ IsTimedLeg(document))
    => /\ pc = "returned"
       /\ ~IsNone(Envelope)
       /\ PrimaryMode(document) = Some("bus")
            => DecodedLeg.mode = C15_BusMode(BusSubmode(document))
       /\ IsNone(PrimaryMode(document))
            => DecodedLeg.mode = "public_transport"

C15_Witness ==
    /\ pc = "returned"
    /\ op = "_parse_leg"
    /\ IsTimedLeg(document)
    /\ PrimaryMode(document) = Some("bus")
    /\ BusSubmode(document) = Some("expressBus")
    /\ DecodedLeg.mode = "express_bus"

\* C16 as stated: a timed leg whose primary mode is "tram", "metro" or
\* "funicular" gets that mode, and one whose primary mode is "cableCar" gets
\* the mode "cable_car".
C16_AsStated ==
    (Called("_parse_leg") /\ IsTimedLeg(document))
    => /\ pc = "returned"
       /\ ~IsNone(Envelope)
       /\ \A m \in {"tram", "metro", "funicular"} :
             PrimaryMode(document) = Some(m) => DecodedLeg.mode = m
       /\ PrimaryMode(document) = Some("cableCar")
             => DecodedLeg.mode = "cable_car"

C17_Vocabulary ==
    {"regional_train", "s_bahn", "intercity", "high_speed_rail", "train",
     "bus", "express_bus", "night_bus", "tram", "metro", "funicular",
     "cable_car", "public_transport"}

\* C17 as stated: the mode of every decoded timed leg is in the normalized
\* vocabulary, whatever the primary mode and the submodes are.
C17_AsStated ==
    (Called("_parse_leg") /\ IsTimedLeg(document))
    => /\ pc = "returned"
       /\ ~IsNone(Envelope)
       /\ DecodedLeg.mode \in C17_Vocabulary

\* The name the claim gives a LegBoard / LegAlight: its StopPointName text,
\* "Unknown" when the element or the text is missing.
C18_StopName(stop_elems) ==
    IF stop_elems = <<>> \/ IsNone(TextOf(Head(stop_elems).StopPointNameText))
    THEN "Unknown"
    ELSE Val(TextOf(Head(stop_elems).StopPointNameText))

\* The name the claim gives a LegStart / LegEnd: the text of its name field
\* (Name, or n when there is no Name), "Unknown" when the element or the
\* text is missing.
C18_EndpointName(endpoint_elems) ==
    IF endpoint_elems = <<>> THEN "Unknown"
    ELSE LET e == Head(endpoint_elems)
             text == IF e.NameText # <<>> THEN TextOf(e.NameText)
                     ELSE TextOf(e.nText)
         IN  IF IsNone(text) THEN "Unknown" ELSE Val(text)

\* The TransferLeg that a continuous or transfer leg is decoded from.
C18_TransferOf(leg_elem) ==
    IF leg_elem.ContinuousLeg # <<>>
    THEN Head(leg_elem.ContinuousLeg).TransferLeg
    ELSE leg_elem.TransferLeg

C18_Named(leg, origin_name, destination_name) ==
    /\ leg.origin.name \in STRING
    /\ leg.destination.name \in STRING
    /\ leg.origin.name = origin_name
    /\ leg.destination.name = destination_name

C18_TransferNamed(leg_elem) ==
    /\ ~IsNone(Envelope)
    /\ C18_Named(DecodedLeg,
                 C18_EndpointName(Head(C18_TransferOf(leg_elem)).LegStart),
                 C18_EndpointName(Head(C18_TransferOf(leg_elem)).LegEnd))

C18_TimedNamed(leg_elem) ==
    /\ ~IsNone(Envelope)
    /\ C18_Named(DecodedLeg,
                 C18_StopName(Head(leg_elem.TimedLeg).LegBoard),
                 C18_StopName(Head(leg_elem.TimedLeg).LegAlight))

\* C18 (amended): every Leg that _parse_leg returns has an origin and a
\* destination whose name is a string.  A continuous or transfer leg is
\* returned whatever its LegStart and LegEnd are: an endpoint that is
\* missing, or whose name field is missing or empty, is the Location named
\* "Unknown".  A timed leg is returned exactly when it has both LegBoard and
\* LegAlight, and a stop whose name is missing or empty is the Location
\* named "Unknown".
C18_EndpointsPopulated ==
    Called("_parse_leg")
    => /\ pc = "returned"
       /\ document.TimedLeg # <<>>
            => IF IsTimedLeg(document) THEN C18_TimedNamed(document)
               ELSE IsNone(Envelope)
       /\ (document.TimedLeg = <<>> /\ C18_TransferOf(document) # <<>>)
            => C18_TransferNamed(document)

\* C18 as stated: a leg of any of the three shapes is returned with both
\* endpoints named, "Unknown" standing for a missing endpoint element and
\* for a missing or empty name; no leg is dropped for a missing endpoint.
C18_AsStated ==
    Called("_parse_leg")
    => /\ pc = "returned"
       /\ document.TimedLeg # <<>> => C18_TimedNamed(document)
       /\ (document.TimedLeg = <<>> /\ C18_TransferOf(document) # <<>>)
            => C18_TransferNamed(document)

\* A continuous leg without LegStart and with an empty name in its LegEnd.
C18_Witness ==
    /\ pc = "returned"
    /\ op = "_parse_leg"
    /\ document.ContinuousLeg # <<>>
    /\ LET transfer == Head(C18_TransferOf(document))
       IN  /\ transfer.LegStart = <<>>
           /\ transfer.LegEnd # <<>>
           /\ Head(transfer.LegEnd).NameText = <<TextElem(None)>>
           /\ Head(transfer.LegEnd).StopPointRef # <<>>
    /\ ~IsNone(Envelope)
    /\ DecodedLeg.origin = UnknownLocation
    /\ DecodedLeg.destination = UnknownLocation

\* The Place of a place result, its primary name and its fallback name.
PlaceOf(place_elem) == Head(place_elem.Place)
PrimaryName(place_elem) == TextOf(PlaceOf(place_elem).NameText)
FallbackName(place_elem) == TextOf(PlaceOf(place_elem).StopPlaceNameText)

\* The probability text is one that Location accepts: none, one that float()
\* rejects, or a number in [0, 1].
ProbabilityAccepted(place_elem) ==
    LET probability == PyFloat(TextOf(place_elem.Probability))
    IN  IsNone(probability) \/ (Val(probability) >= 0 /\ Val(probability) <= 100)

\* C19: for a place result whose primary name (Name/Text) is missing or
\* empty and whose fallback name (StopPlace/StopPlaceName/Text) has text,
\* the Location extracted is named with the fallback text, never "Unknown";
\* it is extracted whenever the probability is one a Location accepts.
C19_FallbackName ==
    (/\ Called("_parse_place_result")
     /\ document.Place # <<>>
     /\ IsNone(PrimaryName(document))
     /\ ~IsNone(FallbackName(document)))
    => /\ pc = "returned"
       /\ ~IsNone(Envelope) => Val(Envelope).name = Val(FallbackName(document))
       /\ ~IsNone(Envelope) => Val(Envelope).name # "Unknown"
       /\ ProbabilityAccepted(document) => ~IsNone(Envelope)

\* A place with an empty Name/Text and a StopPlaceName.
C19_Witness ==
    /\ pc = "returned"
    /\ op = "_parse_place_result"
    /\ document.Place # <<>>
    /\ PlaceOf(document).NameText = <<TextElem(None)>>
    /\ FallbackName(document) = Some("Bern (Bahnhof)")
    /\ ~IsNone(Envelope)
    /\ Val(Envelope).name = "Bern (Bahnhof)"

\* C20 as stated: a place result with a Place but with no text in either
\* name field gives a Location named "Unknown" with its identifier as the
\* document has it; only a place result without Place gives no Location.
C20_AsStated ==
    Called("_parse_place_result")
    => /\ pc = "returned"
       /\ document.Place = <<>> => IsNone(Envelope)
       /\ (/\ document.Place # <<>>
           /\ IsNone(PrimaryName(document))
           /\ IsNone(FallbackName(document))
           /\ ProbabilityAccepted(document))
          => /\ ~IsNone(Envelope)
             /\ Val(Envelope).name = "Unknown"
             /\ Val(Envelope).id = TextOf(PlaceOf(document).StopPlaceRef)

\* The name the extractor resolves: the primary name, else the fallback.
ResolvedName(place_elem) ==
    IF IsNone(PrimaryName(place_elem)) THEN FallbackName(place_elem)
    ELSE PrimaryName(place_elem)

\* The coordinates the claim expects: both numbers when both are numeric and
\* in range, none otherwise.
C21_Coordinates(place_elem) ==
    LET geo == PlaceOf(place_elem).GeoPosition
        lon == IF geo = <<>> THEN None ELSE PyFloat(TextOf(Head(geo).Longitude))
        lat == IF geo = <<>> THEN None ELSE PyFloat(TextOf(Head(geo).Latitude))
    IN  IF IsNone(lon) \/ IsNone(lat) THEN None
        ELSE IF Val(lon) < -180 \/ Val(lon) > 180 THEN None
        ELSE IF Val(lat) < -90 \/ Val(lat) > 90 THEN None
        ELSE Some([longitude |-> Val(lon), latitude |-> Val(lat)])

\* The probability the claim expects: the number when it is numeric and in
\* [0, 1] (in hundredths), none otherwise.
C21_Probability(place_elem) ==
    LET probability == PyFloat(TextOf(place_elem.Probability))
    IN  IF IsNone(probability) THEN None
        ELSE IF Val(probability) < 0 \/ Val(probability) > 100 THEN None
        ELSE probability

\* C21 as stated: for a place result with a Place and a name, a Location is
\* produced with that name and its identifier; a non-numeric or out-of-range
\* longitude, latitude or probability only makes that field absent, and the
\* coordinates are both numbers or absent.
C21_AsStated ==
    (/\ Called("_parse_place_result")
     /\ document.Place # <<>>
     /\ ~IsNone(ResolvedName(document)))
    => /\ pc = "returned"
       /\ ~IsNone(Envelope)
       /\ Val(Envelope).name = Val(ResolvedName(document))
       /\ Val(Envelope).id = TextOf(PlaceOf(document).StopPlaceRef)
       /\ Val(Envelope).coordinates = C21_Coordinates(document)
       /\ Val(Envelope).probability = C21_Probability(document)

\* The decoder the claim selects for a leg element.
C22_Shape(leg_elem) ==
    IF leg_elem.TimedLeg # <<>> THEN "timed"
    ELSE IF leg_elem.ContinuousLeg # <<>> THEN "continuous"
    ELSE IF leg_elem.TransferLeg # <<>> THEN "transfer"
    ELSE "none"

\* What that decoder alone makes of the leg element.
C22_Decoded(leg_elem) ==
    CASE C22_Shape(leg_elem) = "timed"
            -> _parse_timed_leg(Head(leg_elem.TimedLeg))
      [] C22_Shape(leg_elem) = "continuous"
            -> _parse_continuous_leg(Head(leg_elem.ContinuousLeg))
      [] C22_Shape(leg_elem) = "transfer"
            -> _parse_transfer_leg(leg_elem, Head(leg_elem.TransferLeg))
      [] OTHER -> None

\* The leg elements that yield no Leg: no shape, a timed leg without
\* LegBoard or LegAlight, a continuous leg without TransferLeg.
C22_Dropped(leg_elem) ==
    \/ C22_Shape(leg_elem) = "none"
    \/ /\ C22_Shape(leg_elem) = "timed"
       /\ \/ Head(leg_elem.TimedLeg).LegBoard = <<>>
          \/ Head(leg_elem.TimedLeg).LegAlight = <<>>
    \/ /\ C22_Shape(leg_elem) = "continuous"
       /\ Head(leg_elem.ContinuousLeg).TransferLeg = <<>>

\* The Legs of the leg elements that are not dropped, in document order.
RECURSIVE C22_Kept(_)
C22_Kept(leg_elements) ==
    IF leg_elements = <<>> THEN <<>>
    ELSE (IF C22_Dropped(Head(leg_elements)) THEN <<>>
          ELSE <<Val(C22_Decoded(Head(leg_elements)))>>)
             \o C22_Kept(Tail(leg_elements))

C22_HasTimes(legs) ==
    /\ \E i \in 1..Len(legs) : ~IsNone(legs[i].departure_time)
    /\ \E i \in 1..Len(legs) : ~IsNone(legs[i].arrival_time)

\* C22: each leg element is decoded by one decoder, TimedLeg before
\* ContinuousLeg before a TransferLeg child; an element with none of the
\* three, a timed leg without LegBoard or LegAlight and a leg whose decoder
\* fails yield no Leg, and the Trip has the Legs of the other elements in
\* document order.
C22_ClassifiedInOrder ==
    (Called("parse_trip_response") /\ Len(document.TripResult) = 1)
    => LET kept == C22_Kept(document.TripResult[1].Leg)
       IN  /\ pc = "returned"
           /\ \A j \in 1..Len(Envelope.trips) : Envelope.trips[j].legs = kept
           /\ C22_HasTimes(kept) => Len(Envelope.trips) = 1

\* A leg with TimedLeg and ContinuousLeg decoded as a timed leg, a leg with
\* a TimedLeg without LegAlight dropped although it has a ContinuousLeg, and
\* a leg with ContinuousLeg and TransferLeg decoded as a continuous leg.
C22_Witness ==
    /\ pc = "returned"
    /\ op = "parse_trip_response"
    /\ document.TripResult
         = <<TripResultElem(<<TimedOverContinuous, HalfTimedOverContinuous,
                              ContinuousOverTransfer>>)>>
    /\ Len(Envelope.trips) = 1
    /\ Len(Envelope.trips[1].legs) = 2
    /\ Envelope.trips[1].legs[1].mode = "bus"
    /\ Envelope.trips[1].legs[2].mode = "walk"

\* The Duration elements at the leg level and at the transfer level of a
\* continuous or transfer leg.
C23_LegLevel(leg_elem) ==
    IF leg_elem.ContinuousLeg # <<>>
    THEN Head(leg_elem.ContinuousLeg).DurationBefore
            \o Head(leg_elem.ContinuousLeg).DurationAfter
    ELSE leg_elem.Duration

C23_TransferLevel(leg_elem) == Head(C18_TransferOf(leg_elem)).Duration

\* C23 as stated: the duration_minutes of a continuous or transfer leg is
\* decoded from the Duration at the leg level when there is one, wherever it
\* stands in the document, and from the Duration of the TransferLeg only
\* when there is none at the leg level.
C23_AsStated ==
    (/\ Called("_parse_leg")
     /\ document.TimedLeg = <<>>
     /\ C18_TransferOf(document) # <<>>)
    => /\ pc = "returned"
       /\ ~IsNone(Envelope)
       /\ DecodedLeg.duration_minutes
            = DurationMinutes(IF C23_LegLevel(document) # <<>>
                              THEN C23_LegLevel(document)
                              ELSE C23_TransferLevel(document))

====
